---------------------------- MODULE Spec2Model ----------------------------
(***************************************************************************)
(* Model of the download orchestration layer of the two GUI downloaders   *)
(*   src/ll_gui_downloader.py     (called v1 below, impl = 1)              *)
(*   src/ll_gui_downloader_v2.py  (called v2 below, impl = 2)              *)
(*                                                                         *)
(* Threads: the Tk main loop (start_download_thread, cancel_download,      *)
(* _poll_queue callbacks, each atomic with respect to the others) and one  *)
(* worker thread per accepted start (_worker), inside which the engine     *)
(* (yt-dlp) invokes the per-item progress hook.  The engine is opaque: a   *)
(* download call invokes the hook any number of times with any payload     *)
(* and then returns or raises.                                             *)
(*                                                                         *)
(* Texts are the source's texts with "..." for the ellipsis character and  *)
(* "-" for the dash.  Python floats are modelled by exact fractions        *)
(* <<n, d>>; d = 0 stands for float("inf").                                *)
(***************************************************************************)
EXTENDS Integers, Sequences, FiniteSets, TLC

(***************************************************************************)
(* Bounds of the model.                                                    *)
(***************************************************************************)
\* longest raw playlist the engine resolves
MaxItems == 2
\* hook invocations of the engine per run of the full system (Spec)
MaxHooks == 1
\* hook invocations of the engine in the worker-and-engine system (SpecEngine)
MaxCalls == 2
\* accepted start requests per run
MaxSessions == 2
\* secs_fmt is called with every whole number of seconds up to this one
\* (and with the long durations listed in LongDurations)
MaxSecs == 61

(***************************************************************************)
(* Arithmetic helpers: exact fractions for Python's float values.          *)
(***************************************************************************)
RECURSIVE Gcd(_, _)
Gcd(a, b) == IF b = 0 THEN a ELSE Gcd(b, a % b)

Abs(x) == IF x < 0 THEN -x ELSE x

\* n / d as a reduced fraction (d > 0)
Frac(n, d) == LET g == Gcd(Abs(n), d) IN <<n \div g, d \div g>>

FracLE(a, b) == a[1] * b[2] <= b[1] * a[2]

FracLT(a, b) == a[1] * b[2] < b[1] * a[2]

\* max(0.0, min(1.0, x))
Clamp01(x) == IF FracLT(x, <<0, 1>>) THEN <<0, 1>>
              ELSE IF FracLT(<<1, 1>>, x) THEN <<1, 1>> ELSE x

\* int(x * 100) for x >= 0
Pct(x) == (100 * x[1]) \div x[2]

Max(a, b) == IF a >= b THEN a ELSE b

(***************************************************************************)
(* Text helpers: str(n) and the format specifications the source uses.     *)
(***************************************************************************)
Digit(n) == CASE n = 0 -> "0" [] n = 1 -> "1" [] n = 2 -> "2" [] n = 3 -> "3"
              [] n = 4 -> "4" [] n = 5 -> "5" [] n = 6 -> "6" [] n = 7 -> "7"
              [] n = 8 -> "8" [] n = 9 -> "9"

RECURSIVE NatStr(_)
NatStr(n) == IF n < 10 THEN Digit(n) ELSE NatStr(n \div 10) \o Digit(n % 10)

\* str(n), f"{n}"
IntStr(n) == IF n < 0 THEN "-" \o NatStr(-n) ELSE NatStr(n)

\* f"{n:02d}"
Pad2(n) == IF n >= 0 /\ n < 10 THEN "0" \o NatStr(n) ELSE IntStr(n)

\* round to the nearest integer, ties to even, of n / d (n >= 0, d > 0)
RoundHalfEven(n, d) ==
    LET k == n \div d
        r == n % d
    IN  IF 2 * r > d \/ (2 * r = d /\ k % 2 = 1) THEN k + 1 ELSE k

\* f"{x:3.1f}" and f"{x:.1f}" (the width 3 never pads: "0.0" is 3 wide)
Fmt1(x) ==
    LET t == RoundHalfEven(10 * Abs(x[1]), x[2])
        sign == IF x[1] < 0 /\ t > 0 THEN "-" ELSE ""
    IN  sign \o NatStr(t \div 10) \o "." \o Digit(t % 10)

(***************************************************************************)
(* Formatter: sizeof_fmt and secs_fmt.  A Python value is modelled by a    *)
(* record: [t |-> "none"] for None or an absent key, [t |-> "num", v |->   *)
(* <<n, d>>] for a number (d = 0: infinity), [t |-> "bad"] for a value     *)
(* float() rejects.                                                        *)
(***************************************************************************)
PyNone == [t |-> "none"]

PyNum(n, d) == [t |-> "num", v |-> <<n, d>>]

PyBad == [t |-> "bad"]

\* Python truthiness of a value
Truthy(x) == x.t = "bad" \/ (x.t = "num" /\ x.v[1] # 0)

Units == <<"", "K", "M", "G", "T", "P", "E", "Z">>

RECURSIVE SizeLoop(_, _, _)
SizeLoop(num, j, suffix) ==
    IF j > Len(Units)
    THEN Fmt1(num) \o " Y" \o suffix
    ELSE IF Abs(num[1]) < 1024 * num[2]
         THEN Fmt1(num) \o " " \o Units[j] \o suffix
         ELSE SizeLoop(<<num[1], num[2] * 1024>>, j + 1, suffix)

\* sizeof_fmt(num, suffix); v1 converts with float(num), v2 with float(num or 0)
sizeof_fmt(impl, num, suffix) ==
    LET failText == IF impl = 1 THEN "0 B" ELSE "0 B/s"
    IN  IF num.t = "bad" THEN failText
        ELSE IF num.t = "none"
             THEN IF impl = 1 THEN failText ELSE SizeLoop(<<0, 1>>, 1, suffix)
        ELSE IF num.v[2] = 0 THEN "inf Y" \o suffix
        ELSE SizeLoop(num.v, 1, suffix)

\* faulty variant of secs_fmt: no hours field, the minutes run on
secs_fmt_minutes_only(s) ==
    IF s.t # "num" THEN "--:--"
    ELSE IF s.v[1] = 0 \/ s.v[2] = 0 THEN "--:--"
    ELSE LET whole == s.v[1] \div s.v[2]
         IN  Pad2(whole \div 60) \o ":" \o Pad2(whole % 60)

\* secs_fmt(s)
secs_fmt(s) ==
    IF s.t # "num" THEN "--:--"
    ELSE IF s.v[1] = 0 \/ s.v[2] = 0 THEN "--:--"
    ELSE LET whole == IF s.v[1] >= 0 THEN s.v[1] \div s.v[2]
                      ELSE -((-s.v[1]) \div s.v[2])
             m0  == whole \div 60
             sec == whole % 60
             h   == m0 \div 60
             m   == m0 % 60
         IN  IF h # 0 THEN Pad2(h) \o ":" \o Pad2(m) \o ":" \o Pad2(sec)
             ELSE Pad2(m) \o ":" \o Pad2(sec)

(***************************************************************************)
(* Engine payloads: the dict d the engine passes to a progress hook.       *)
(***************************************************************************)
Payload(st, dl, tb, tbe, fi, fc, sp, et) ==
    [status |-> st, downloaded_bytes |-> dl, total_bytes |-> tb,
     total_bytes_estimate |-> tbe, fragment_index |-> fi,
     fragment_count |-> fc, speed |-> sp, eta |-> et]

\* x or y
PyOr(x, y) == IF Truthy(x) THEN x ELSE y

\* (x or 0) as a fraction
OrZero(x) == IF Truthy(x) /\ x.t = "num" THEN x.v ELSE <<0, 1>>

\* a / b for fractions, b # 0
FracDiv(a, b) ==
    LET n == a[1] * b[2]
        d == a[2] * b[1]
    IN  IF d < 0 THEN Frac(-n, -d) ELSE Frac(n, d)

\* the payloads the engine sends in the full system (Spec): half of the
\* file downloaded, and the item finished
SessionPayloads ==
    { Payload("downloading", PyNum(1, 1), PyNum(2, 1), PyNone, PyNone, PyNone,
              PyNum(1536, 1), PyNum(61, 1)),
      Payload("finished", PyNone, PyNone, PyNone, PyNone, PyNone, PyNone, PyNone) }

\* the payloads of SpecEngine: byte counts with and without a known total,
\* more bytes than the estimate, fragment counts, nothing known
EnginePayloads ==
    SessionPayloads \cup
    { Payload("downloading", PyNum(2, 1), PyNum(2, 1), PyNone, PyNone, PyNone,
              PyNone, PyNone),
      Payload("downloading", PyNum(3, 1), PyNone, PyNum(2, 1), PyNone, PyNone,
              PyNum(512, 1), PyNum(3661, 1)),
      Payload("downloading", PyNum(1, 1), PyNum(0, 1), PyNum(4, 1), PyNum(1, 1),
              PyNum(2, 1), PyNone, PyNum(1, 0)),
      Payload("downloading", PyNone, PyNone, PyNone, PyNum(1, 1), PyNum(2, 1),
              PyNone, PyNone),
      Payload("downloading", PyNone, PyNone, PyNone, PyNum(3, 1), PyNum(2, 1),
              PyNone, PyNone),
      Payload("downloading", PyNone, PyNone, PyNone, PyNone, PyNone, PyNone, PyNone),
      Payload("error", PyNone, PyNone, PyNone, PyNone, PyNone, PyNone, PyNone) }

(***************************************************************************)
(* Progress hook (_make_hook): the pure part, given that the stop flag is  *)
(* not set.  HookEvents is the sequence of events one invocation enqueues. *)
(***************************************************************************)
\* faulty variant of RawFileFrac: the total-bytes estimate is not consulted
RawFileFracNoEstimate(d) ==
    LET downloaded  == OrZero(d.downloaded_bytes)
        total_bytes == OrZero(d.total_bytes)
        fi == OrZero(d.fragment_index)
        fc == OrZero(d.fragment_count)
    IN  IF total_bytes[1] # 0 THEN FracDiv(downloaded, total_bytes)
        ELSE IF fc[1] # 0 THEN FracDiv(fi, fc) ELSE <<0, 1>>

\* file_frac of a "downloading" payload, before clamping
RawFileFrac(d) ==
    LET downloaded  == OrZero(d.downloaded_bytes)
        total_bytes == OrZero(PyOr(d.total_bytes, d.total_bytes_estimate))
        fi == OrZero(d.fragment_index)
        fc == OrZero(d.fragment_count)
    IN  IF total_bytes[1] # 0 THEN FracDiv(downloaded, total_bytes)
        ELSE IF fc[1] # 0 THEN FracDiv(fi, fc) ELSE <<0, 1>>

\* overall_frac of a "downloading" payload, before clamping
RawOverallFrac(idx, total, file_frac) ==
    IF total # 0
    THEN Frac(((idx - 1) * file_frac[2]) + file_frac[1], file_frac[2] * total)
    ELSE file_frac

\* faulty variant of FinishedOverall: the finished item is not counted
FinishedOverallPrev(idx, total) ==
    IF total # 0 THEN Frac(idx - 1, total) ELSE <<1, 1>>

\* overall_frac of a "finished" payload: (idx / total) if total else 1.0
FinishedOverall(idx, total) ==
    IF total # 0 THEN Frac(idx, total) ELSE <<1, 1>>

\* the "speed" field: sizeof_fmt(speed, "/s") if speed else "0 B/s"
SpeedText(impl, speed) ==
    IF Truthy(speed) THEN sizeof_fmt(impl, speed, "/s") ELSE "0 B/s"

\* the "remaining" field, which only v2 sends
WithRemaining(impl, idx, total, ev) ==
    IF impl = 2
    THEN [kind |-> ev.kind, title |-> ev.title, file_frac |-> ev.file_frac,
          overall_frac |-> ev.overall_frac, speed |-> ev.speed, eta |-> ev.eta,
          remaining |-> Max(0, total - idx)]
    ELSE ev

HookEvents(impl, idx, total, title, d) ==
    IF d.status = "downloading"
    THEN LET file_frac    == RawFileFrac(d)
             overall_frac == RawOverallFrac(idx, total, file_frac)
         IN  << WithRemaining(impl, idx, total,
                  [kind |-> "progress", title |-> title,
                   file_frac |-> Clamp01(file_frac),
                   overall_frac |-> Clamp01(overall_frac),
                   speed |-> SpeedText(impl, d.speed),
                   eta |-> secs_fmt(d.eta)]) >>
    ELSE IF d.status = "finished"
    THEN << WithRemaining(impl, idx, total,
              [kind |-> "progress", title |-> title,
               file_frac |-> <<1, 1>>,
               overall_frac |-> FinishedOverall(idx, total),
               speed |-> "-", eta |-> "00:00"]) >>
    ELSE << >>

(***************************************************************************)
(* URL input and resolution.                                               *)
(***************************************************************************)
\* str.strip(chars): drop leading and trailing characters that are in cs
RECURSIVE LStrip(_, _)
LStrip(s, cs) == IF s # << >> /\ Head(s) \in cs THEN LStrip(Tail(s), cs) ELSE s

RECURSIVE RStrip(_, _)
RStrip(s, cs) ==
    IF s # << >> /\ s[Len(s)] \in cs THEN RStrip(SubSeq(s, 1, Len(s) - 1), cs) ELSE s

Strip(s, cs) == RStrip(LStrip(s, cs), cs)

Whitespace == {" "}

\* url_var.get().strip().strip('"').strip("'")
CleanUrl(text) == Strip(Strip(Strip(text, Whitespace), {"\""}), {"'"})

\* what the user may have typed into the URL entry
UrlInputs ==
    { << >>, <<" ">>, <<"\"", "\"">>, <<"'", "\"", "'">>,
      <<" ", "\"", "u", "\"">> }

\* entries of a resolved playlist: None, or an info dict with or without title
NoEntry == [t |-> "none"]

Entry(title) == [t |-> "entry", title |-> title]

\* "title" stands for entry.get("title") or entry.get("id"); "" when both are absent
RawEntries == {NoEntry, Entry("")}

RECURSIVE SeqsUpTo(_, _)
SeqsUpTo(S, n) ==
    IF n = 0 THEN {<< >>}
    ELSE LET shorter == SeqsUpTo(S, n - 1)
         IN  shorter \cup {Append(s, x) : s \in {t \in shorter : Len(t) = n - 1}, x \in S}

\* what ydl.extract_info(url, download=False) may give: an exception, a falsy
\* info, a single video, or a playlist with its raw entries
Infos ==
    { [type |-> "raise"], [type |-> "none"], [type |-> "video", title |-> "A"] }
    \cup { [type |-> "playlist", entries |-> es] : es \in SeqsUpTo(RawEntries, MaxItems) }

\* whether _extract_entries raises
ExtractRaises(info) == info.type \in {"raise", "none"}

RECURSIVE FilterTruthy(_)
FilterTruthy(es) ==
    IF es = << >> THEN << >>
    ELSE IF Head(es).t = "entry" THEN <<Head(es)>> \o FilterTruthy(Tail(es))
         ELSE FilterTruthy(Tail(es))

\* the list _extract_entries returns
ExtractEntries(info) ==
    IF info.type = "playlist" /\ info.entries # << >>
    THEN FilterTruthy(info.entries)
    ELSE IF info.type = "playlist" THEN << Entry("") >>
    ELSE << Entry(info.title) >>

\* entry.get("title") or entry.get("id") or f"item {idx}"
TitleOf(entry, idx) == IF entry.title # "" THEN entry.title ELSE "item " \o IntStr(idx)

(***************************************************************************)
(* State.                                                                  *)
(*   impl       which program runs: 1 = ll_gui_downloader.py,              *)
(*              2 = ll_gui_downloader_v2.py                                *)
(*   ui         the widgets and Tk variables the handlers write:           *)
(*              status_var, file_title_var, file_pct (pb_file and          *)
(*              file_pct_var), overall_pct (pb_overall and                 *)
(*              overall_pct_var), speed_var, eta_var, remain_var (v2),     *)
(*              total_items, btn_start, btn_cancel, and log, the last row  *)
(*              _log inserted (the row the Treeview scrolls to)            *)
(*   stop_flag  self.stop_flag                                             *)
(*   q          self.q, the queue from the worker to _poll_queue           *)
(*   w          the worker thread: pc (where it is; "none" when no worker  *)
(*              runs) and its locals                                       *)
(* History variables; sent, applied, calls and cancelAt start afresh with  *)
(* every accepted start:                                                   *)
(*   sent       every event the worker has put on q, in order              *)
(*   calls      what happened at the engine and the file system: a failed  *)
(*              mkdir or resolution ("fatal"), download calls, hook        *)
(*              invocations (with the stop flag the hook read), returns    *)
(*              ("ret") and errors ("err")                                 *)
(*   cancelAt   where the worker was at the first cancel_download          *)
(*   applied    every event _poll_queue has taken from q and applied, in   *)
(*              the order it applied them                                  *)
(*   hooks      number of hook invocations so far                          *)
(*   session    number of accepted starts so far                           *)
(*   cancelled_before                                                      *)
(*              history, kept by SpecSessions only: Cancel was pressed in  *)
(*              a session before the current one                           *)
(* The formatter on its own (SpecFormat):                                  *)
(*   fmt        the last call of a formatter: the function, its argument   *)
(*              and what it returned                                       *)
(***************************************************************************)
VARIABLES impl, ui, stop_flag, q, w, sent, applied, calls, hooks, cancelAt, session,
          fmt, cancelled_before

vars == <<impl, ui, stop_flag, q, w, sent, applied, calls, hooks, cancelAt, session,
          fmt, cancelled_before>>

\* ---- event constructors ------------------------------------------------
StatusEv(text) == [kind |-> "status", text |-> text]

LogEv(text) == [kind |-> "log", text |-> text]

MetaEv(total) == [kind |-> "meta", total |-> total]

\* v1: {"kind": "done"}; v2: {"kind": "done", "cancelled": c, "text": text}
DoneEv(i, c, text) ==
    IF i = 1 THEN [kind |-> "done"]
    ELSE [kind |-> "done", cancelled |-> c, text |-> text]

\* ---- texts ---------------------------------------------------------------
Ratio(a, b) == IntStr(a) \o "/" \o IntStr(b)

AnalyzingText(i) == IF i = 1 THEN "Analyzing course..." ELSE "Analyzing..."

FoundText(i, total) ==
    IF i = 1 THEN "Found " \o IntStr(total) \o " item(s). Downloading..."
    ELSE "Found " \o IntStr(total) \o " item(s). Downloading... (Remaining "
         \o IntStr(total) \o ")"

StartLogText(idx, total, title) == "[" \o Ratio(idx, total) \o "] " \o title

DownloadingText(completed, total, rem) ==
    "Downloading... " \o Ratio(completed, total) \o " (Remaining " \o IntStr(rem) \o ")"

CancelledText(i, completed, total) ==
    IF i = 1 THEN "Cancelled. " \o Ratio(completed, total) \o " item(s) completed."
    ELSE "Cancelled. " \o Ratio(completed, total) \o " done."

DoneText(i, completed, total) ==
    IF i = 1 THEN "Done. " \o Ratio(completed, total) \o " item(s) completed."
    ELSE "Done. " \o Ratio(completed, total) \o " completed."

\* ---- worker helpers ------------------------------------------------------
NoWorker == [pc |-> "none", entries |-> << >>, total |-> 0,
             idx |-> 0, completed |-> 0, cancelled |-> FALSE]

NeverCancelled == [pc |-> "never", idx |-> 0]

\* faulty variant of FatalEvents: the handler forgets the FATAL log
FatalEventsNoLog(i, msg) ==
    IF i = 1 THEN << StatusEv("Failed."), DoneEv(1, TRUE, "") >>
    ELSE << DoneEv(2, TRUE, "Failed.") >>

\* faulty variant of FatalEvents: the failure path never puts "done"
FatalEventsNoDone(i, msg) ==
    IF i = 1 THEN << LogEv("FATAL: " \o msg), StatusEv("Failed.") >>
    ELSE << LogEv("FATAL: " \o msg) >>

\* the events of the handler "except Exception as exc" (and v1's finally)
FatalEvents(i, msg) ==
    IF i = 1
    THEN << LogEv("FATAL: " \o msg), StatusEv("Failed."), DoneEv(1, TRUE, "") >>
    ELSE << LogEv("FATAL: " \o msg), DoneEv(2, TRUE, "Failed.") >>

\* faulty variant of ExitEvents: the test "if cancelled" is inverted
ExitEventsInverted(i, cancelled, completed, total) ==
    IF i = 1 THEN << >>
    ELSE IF ~cancelled
         THEN << DoneEv(2, TRUE, CancelledText(2, completed, total)) >>
         ELSE << DoneEv(2, FALSE, DoneText(2, completed, total)) >>

\* the events v2 puts after the loop; v1 decides in worker_summary
ExitEvents(i, cancelled, completed, total) ==
    IF i = 1 THEN << >>
    ELSE IF cancelled
         THEN << DoneEv(2, TRUE, CancelledText(2, completed, total)) >>
         ELSE << DoneEv(2, FALSE, DoneText(2, completed, total)) >>

\* where the worker goes when the loop is left
ExitPc(i) == IF i = 1 THEN "summary" ELSE "none"

\* faulty variant of NextIdx: the loop does not advance
NextIdxStuck(idx) == idx

\* enumerate(entries, 1): the index after idx
NextIdx(idx) == idx + 1

\* faulty variant of Count: the increment is lost
CountNever(completed) == completed

\* completed += 1
Count(completed) == completed + 1

\* faulty variant of StopAtLoopTop: the loop never looks at the flag
StopAtLoopTopNever(flag) == FALSE

\* "if self.stop_flag:" at the top of the loop
StopAtLoopTop(flag) == flag

\* faulty variant of StopInHook: the hook never looks at the flag
StopInHookNever(flag) == FALSE

\* "if self.stop_flag:" at the top of the hook
StopInHook(flag) == flag

Put(evs) == /\ q' = q \o evs
            /\ sent' = sent \o evs

\* no formatter call yet
NoCall == [fn |-> "none"]

(***************************************************************************)
(* Initial state: DownloaderGUI.__init__.                                  *)
(***************************************************************************)
InitUi == [status_var |-> "Idle", file_title_var |-> "-", file_pct |-> 0,
           overall_pct |-> 0, speed_var |-> "0 B/s", eta_var |-> "--:--",
           remain_var |-> "0", total_items |-> 0,
           btn_start |-> "normal", btn_cancel |-> "disabled", log |-> ""]

Init == /\ impl \in {1, 2}
        /\ ui = InitUi
        /\ stop_flag = FALSE
        /\ q = << >>
        /\ w = NoWorker
        /\ sent = << >>
        /\ applied = << >>
        /\ calls = << >>
        /\ hooks = 0
        /\ cancelAt = NeverCancelled
        /\ session = 0
        /\ fmt = NoCall
        /\ cancelled_before = FALSE

(***************************************************************************)
(* The Tk thread.                                                          *)
(***************************************************************************)
\* faulty variant of start_download_thread: the flag is not reset
start_download_thread_keeps_flag(text) ==
    LET url == CleanUrl(text) IN
    /\ ui.btn_start = "normal"
    /\ IF url = << >>
       THEN /\ ui' = [ui EXCEPT !.log = IF impl = 1 THEN "Please paste a course URL."
                                        ELSE "Please paste a URL.",
                                !.status_var = "Need URL"]
            /\ UNCHANGED <<stop_flag, w, sent, applied, calls, cancelAt, session>>
       ELSE /\ UNCHANGED stop_flag
            /\ ui' = [ui EXCEPT !.btn_start = "disabled",
                                !.btn_cancel = "normal",
                                !.status_var = AnalyzingText(impl),
                                !.log = IF impl = 1 THEN "Starting..."
                                        ELSE "Starting for site: Auto-detect (Any site)"]
            /\ w' = [NoWorker EXCEPT !.pc = "setup"]
            /\ sent' = << >>
            /\ applied' = << >>
            /\ calls' = << >>
            /\ cancelAt' = NeverCancelled
            /\ session' = session + 1
    /\ UNCHANGED <<fmt, impl, q, hooks>>

\* start_download_thread with `text` in the URL entry (the Start button)
start_download_thread(text) ==
    LET url == CleanUrl(text) IN
    /\ ui.btn_start = "normal"
    /\ IF url = << >>
       THEN /\ ui' = [ui EXCEPT !.log = IF impl = 1 THEN "Please paste a course URL."
                                        ELSE "Please paste a URL.",
                                !.status_var = "Need URL"]
            /\ UNCHANGED <<stop_flag, w, sent, applied, calls, cancelAt, session>>
       ELSE /\ stop_flag' = FALSE
            /\ ui' = [ui EXCEPT !.btn_start = "disabled",
                                !.btn_cancel = "normal",
                                !.status_var = AnalyzingText(impl),
                                !.log = IF impl = 1 THEN "Starting..."
                                        ELSE "Starting for site: Auto-detect (Any site)"]
            /\ w' = [NoWorker EXCEPT !.pc = "setup"]
            /\ sent' = << >>
            /\ applied' = << >>
            /\ calls' = << >>
            /\ cancelAt' = NeverCancelled
            /\ session' = session + 1
    /\ UNCHANGED <<fmt, impl, q, hooks>>

\* faulty variant of cancel_download: the button toggles the flag
cancel_download_toggles ==
    /\ ui.btn_cancel = "normal"
    /\ stop_flag' = ~stop_flag
    /\ ui' = [ui EXCEPT !.log = "Cancel requested. Finishing current fragment...",
                        !.status_var = "Cancelling..."]
    /\ cancelAt' = IF cancelAt = NeverCancelled
                   THEN [pc |-> w.pc, idx |-> w.idx] ELSE cancelAt
    /\ UNCHANGED <<cancelled_before, fmt, impl, q, w, sent, applied, calls, hooks, session>>

\* cancel_download (the Cancel button)
cancel_download ==
    /\ ui.btn_cancel = "normal"
    /\ stop_flag' = TRUE
    /\ ui' = [ui EXCEPT !.log = "Cancel requested. Finishing current fragment...",
                        !.status_var = "Cancelling..."]
    /\ cancelAt' = IF cancelAt = NeverCancelled
                   THEN [pc |-> w.pc, idx |-> w.idx] ELSE cancelAt
    /\ UNCHANGED <<cancelled_before, fmt, impl, q, w, sent, applied, calls, hooks, session>>

\* faulty variant of ApplyEvent: "done" enables Start and leaves Cancel as it is
ApplyEventKeepsCancel(i, u, msg) ==
    CASE msg.kind = "status" -> [u EXCEPT !.status_var = msg.text]
      [] msg.kind = "log"    -> [u EXCEPT !.log = msg.text]
      [] msg.kind = "meta"   ->
            [u EXCEPT !.total_items = msg.total,
                      !.remain_var = IF i = 2 THEN IntStr(msg.total) ELSE @,
                      !.overall_pct = 0]
      [] msg.kind = "progress" ->
            [u EXCEPT !.file_pct = Pct(msg.file_frac),
                      !.overall_pct = Pct(msg.overall_frac),
                      !.file_title_var = msg.title,
                      !.speed_var = msg.speed,
                      !.eta_var = msg.eta,
                      !.remain_var = IF i = 2 THEN IntStr(msg.remaining) ELSE @]
      [] msg.kind = "done" ->
            [u EXCEPT !.btn_start = "normal",
                      !.status_var = IF i = 1 THEN "Done." ELSE msg.text]
      [] OTHER -> u

\* one branch of _poll_queue's loop: the event msg applied to the widgets
ApplyEvent(i, u, msg) ==
    CASE msg.kind = "status" -> [u EXCEPT !.status_var = msg.text]
      [] msg.kind = "log"    -> [u EXCEPT !.log = msg.text]
      [] msg.kind = "meta"   ->
            [u EXCEPT !.total_items = msg.total,
                      !.remain_var = IF i = 2 THEN IntStr(msg.total) ELSE @,
                      !.overall_pct = 0]
      [] msg.kind = "progress" ->
            [u EXCEPT !.file_pct = Pct(msg.file_frac),
                      !.overall_pct = Pct(msg.overall_frac),
                      !.file_title_var = msg.title,
                      !.speed_var = msg.speed,
                      !.eta_var = msg.eta,
                      !.remain_var = IF i = 2 THEN IntStr(msg.remaining) ELSE @]
      [] msg.kind = "done" ->
            [u EXCEPT !.btn_start = "normal",
                      !.btn_cancel = "disabled",
                      !.status_var = IF i = 1 THEN "Done." ELSE msg.text]
      [] OTHER -> u

RECURSIVE ApplyAll(_, _, _)
ApplyAll(i, u, msgs) ==
    IF msgs = << >> THEN u
    ELSE ApplyAll(i, ApplyEvent(i, u, Head(msgs)), Tail(msgs))

\* faulty variant of Drained: the newest pending event is taken first
RECURSIVE DrainedNewestFirst(_)
DrainedNewestFirst(pending) ==
    IF pending = << >> THEN << >>
    ELSE Append(DrainedNewestFirst(Tail(pending)), Head(pending))

\* faulty variant of Drained: one event per run of _poll_queue
DrainedOne(pending) == IF pending = << >> THEN << >> ELSE << Head(pending) >>

\* what one run of _poll_queue takes from the queue: everything pending
Drained(pending) == pending

\* _poll_queue: get_nowait until queue.Empty, then reschedule
poll_queue ==
    /\ ui' = ApplyAll(impl, ui, Drained(q))
    /\ q' = SubSeq(q, Len(Drained(q)) + 1, Len(q))
    /\ applied' = applied \o Drained(q)
    /\ UNCHANGED <<cancelled_before, fmt, impl, stop_flag, w, sent, calls, hooks, cancelAt, session>>

(***************************************************************************)
(* The worker thread: _worker.                                             *)
(***************************************************************************)
\* outdir.mkdir(...), then the "Analyzing" status; mkdir may raise
worker_setup ==
    /\ w.pc = "setup"
    /\ \E mkdirOk \in BOOLEAN :
         IF mkdirOk
         THEN /\ Put(<< StatusEv(AnalyzingText(impl)) >>)
              /\ w' = [w EXCEPT !.pc = "resolve"]
              /\ UNCHANGED calls
         ELSE /\ Put(FatalEvents(impl, "mkdir"))
              /\ w' = [w EXCEPT !.pc = "none"]
              /\ calls' = Append(calls, [op |-> "fatal", idx |-> 0])
    /\ UNCHANGED <<cancelled_before, fmt, impl, ui, stop_flag, applied, hooks, cancelAt, session>>

\* entries = self._extract_entries(url, opts), then meta and the Found status
worker_resolve ==
    /\ w.pc = "resolve"
    /\ \E info \in Infos :
         IF ExtractRaises(info)
         THEN /\ Put(FatalEvents(impl, "extract"))
              /\ w' = [w EXCEPT !.pc = "none"]
              /\ calls' = Append(calls, [op |-> "fatal", idx |-> 0])
         ELSE LET entries == ExtractEntries(info)
                  total   == Len(entries)
              IN  /\ Put(<< MetaEv(total), StatusEv(FoundText(impl, total)) >>)
                  /\ w' = [w EXCEPT !.pc = "loop", !.entries = entries,
                                    !.total = total, !.idx = 1, !.completed = 0]
                  /\ UNCHANGED calls
    /\ UNCHANGED <<cancelled_before, fmt, impl, ui, stop_flag, applied, hooks, cancelAt, session>>

\* the top of "for idx, entry in enumerate(entries, 1)" up to ydl.download
worker_loop ==
    /\ w.pc = "loop"
    /\ IF w.idx > w.total
       THEN \* the list is exhausted: no stop check
            /\ Put(ExitEvents(impl, w.cancelled, w.completed, w.total))
            /\ w' = [w EXCEPT !.pc = ExitPc(impl)]
            /\ UNCHANGED calls
       ELSE IF StopAtLoopTop(stop_flag)
       THEN \* cancelled = True (v2); break
            /\ Put(ExitEvents(impl, TRUE, w.completed, w.total))
            /\ w' = [w EXCEPT !.pc = ExitPc(impl), !.cancelled = (impl = 2)]
            /\ UNCHANGED calls
       ELSE IF w.entries[w.idx].t # "entry"
       THEN \* if not entry: continue
            /\ w' = [w EXCEPT !.idx = NextIdx(w.idx)]
            /\ UNCHANGED <<q, sent, calls>>
       ELSE /\ Put(<< LogEv(StartLogText(w.idx, w.total,
                                         TitleOf(w.entries[w.idx], w.idx))) >>)
            /\ calls' = Append(calls, [op |-> "call", idx |-> w.idx])
            /\ w' = [w EXCEPT !.pc = "download"]
    /\ UNCHANGED <<cancelled_before, fmt, impl, ui, stop_flag, applied, hooks, cancelAt, session>>

\* the engine invokes the hook of the item in flight with payload d
hook(d) ==
    /\ w.pc = "download"
    /\ hooks' = hooks + 1
    /\ calls' = Append(calls, [op |-> "hook", idx |-> w.idx, d |-> d,
                               stop |-> stop_flag])
    /\ IF StopInHook(stop_flag)
       THEN \* raise KeyboardInterrupt; except KeyboardInterrupt: break
            /\ Put(ExitEvents(impl, TRUE, w.completed, w.total))
            /\ w' = [w EXCEPT !.pc = ExitPc(impl), !.cancelled = (impl = 2)]
       ELSE /\ Put(HookEvents(impl, w.idx, w.total,
                              TitleOf(w.entries[w.idx], w.idx), d))
            /\ UNCHANGED w
    /\ UNCHANGED <<cancelled_before, fmt, impl, ui, stop_flag, applied, cancelAt, session>>

\* ydl.download returns: completed += 1 (and v2's Downloading status)
download_returns ==
    /\ w.pc = "download"
    /\ calls' = Append(calls, [op |-> "ret", idx |-> w.idx])
    /\ LET completed == Count(w.completed) IN
       /\ Put(IF impl = 2
              THEN << StatusEv(DownloadingText(completed, w.total,
                                               Max(0, w.total - w.idx))) >>
              ELSE << >>)
       /\ w' = [w EXCEPT !.pc = "loop", !.completed = completed,
                         !.idx = NextIdx(w.idx)]
    /\ UNCHANGED <<cancelled_before, fmt, impl, ui, stop_flag, applied, hooks, cancelAt, session>>

\* faulty variant of download_raises: a failed item is counted as completed
download_raises_counted ==
    /\ w.pc = "download"
    /\ calls' = Append(calls, [op |-> "err", idx |-> w.idx])
    /\ Put(<< LogEv("ERROR: download failed") >>)
    /\ w' = [w EXCEPT !.pc = "loop", !.idx = NextIdx(w.idx),
                      !.completed = Count(w.completed)]
    /\ UNCHANGED <<cancelled_before, fmt, impl, ui, stop_flag, applied, hooks, cancelAt, session>>

\* ydl.download raises an Exception: the ERROR log, continue
download_raises ==
    /\ w.pc = "download"
    /\ calls' = Append(calls, [op |-> "err", idx |-> w.idx])
    /\ Put(<< LogEv("ERROR: download failed") >>)
    /\ w' = [w EXCEPT !.pc = "loop", !.idx = NextIdx(w.idx)]
    /\ UNCHANGED <<cancelled_before, fmt, impl, ui, stop_flag, applied, hooks, cancelAt, session>>

\* v1 after the loop: "if self.stop_flag" chooses the summary; finally: done
worker_summary ==
    /\ w.pc = "summary"
    /\ Put(<< StatusEv(IF stop_flag
                       THEN CancelledText(1, w.completed, w.total)
                       ELSE DoneText(1, w.completed, w.total)),
              DoneEv(1, stop_flag, "") >>)
    /\ w' = [w EXCEPT !.pc = "none"]
    /\ UNCHANGED <<cancelled_before, fmt, impl, ui, stop_flag, applied, calls, hooks, cancelAt, session>>

\* the full system: both threads and the engine
Next ==
    \/ \E text \in UrlInputs :
          /\ CleanUrl(text) # << >> => session < MaxSessions
          /\ start_download_thread(text)
          /\ UNCHANGED cancelled_before
    \/ cancel_download
    \/ poll_queue
    \/ worker_setup
    \/ worker_resolve
    \/ worker_loop
    \/ \E d \in SessionPayloads : hooks < MaxHooks /\ hook(d)
    \/ download_returns
    \/ download_raises
    \/ worker_summary

Spec == Init /\ [][Next]_vars

\* the worker and the engine with every payload; the observer is not
\* scheduled, so the queue only grows and there is one session
NextEngine ==
    \/ \E text \in UrlInputs :
          /\ start_download_thread(text)
          /\ UNCHANGED cancelled_before
    \/ cancel_download
    \/ worker_setup
    \/ worker_resolve
    \/ worker_loop
    \/ \E d \in EnginePayloads : hooks < MaxCalls /\ hook(d)
    \/ download_returns
    \/ download_raises
    \/ worker_summary

SpecEngine == Init /\ [][NextEngine]_vars

\* one session of the full system, in which the engine may invoke the hook
\* several times for the same item
NextObserver ==
    \/ \E text \in UrlInputs :
          /\ CleanUrl(text) # << >> => session = 0
          /\ start_download_thread(text)
          /\ UNCHANGED cancelled_before
    \/ cancel_download
    \/ poll_queue
    \/ worker_setup
    \/ worker_resolve
    \/ worker_loop
    \/ \E d \in SessionPayloads : hooks < MaxCalls /\ hook(d)
    \/ download_returns
    \/ download_raises
    \/ worker_summary

SpecObserver == Init /\ [][NextObserver]_vars

\* one session of the full system with the hook budget of Spec
NextPolling ==
    \/ \E text \in UrlInputs :
          /\ CleanUrl(text) # << >> => session = 0
          /\ start_download_thread(text)
          /\ UNCHANGED cancelled_before
    \/ cancel_download
    \/ poll_queue
    \/ worker_setup
    \/ worker_resolve
    \/ worker_loop
    \/ \E d \in SessionPayloads : hooks < MaxHooks /\ hook(d)
    \/ download_returns
    \/ download_raises
    \/ worker_summary

\* _poll_queue ends with self.master.after(100, self._poll_queue): the Tk
\* main loop runs it again and again, so a poll that has something to apply
\* is not postponed for ever
SpecPolling == Init /\ [][NextPolling]_vars /\ WF_vars(poll_queue)

\* the sessions one after the other, with downloads that return: every
\* accepted start notes in cancelled_before whether Cancel was pressed in a
\* session before it
NextSessions ==
    \/ \E text \in UrlInputs :
          /\ CleanUrl(text) # << >> /\ session < MaxSessions
          /\ start_download_thread(text)
          /\ cancelled_before' = (cancelled_before \/ cancelAt # NeverCancelled)
    \/ cancel_download
    \/ poll_queue
    \/ worker_setup
    \/ worker_resolve
    \/ worker_loop
    \/ \E d \in SessionPayloads : hooks < MaxHooks /\ hook(d)
    \/ download_returns
    \/ worker_summary

SpecSessions == Init /\ [][NextSessions]_vars

\* the worker is a thread of its own (threading.Thread(...).start()): each
\* of its steps is taken once it is possible, and a call of the engine
\* (extract_info, download) returns or raises
SpecWorker ==
    /\ Init /\ [][NextPolling]_vars
    /\ WF_vars(poll_queue)
    /\ WF_vars(worker_setup)
    /\ WF_vars(worker_resolve)
    /\ WF_vars(worker_loop)
    /\ WF_vars(download_returns \/ download_raises)
    /\ WF_vars(worker_summary)

(***************************************************************************)
(* The formatter on its own: secs_fmt called with any duration, and the    *)
(* speed text of the hook made for any speed.                              *)
(***************************************************************************)
\* durations around one hour, ten hours, one day and a hundred hours
LongDurations == {3599, 3600, 3661, 35999, 86400, 359999, 360000}

\* the fractional part of the argument, in thousandths of a second
Thousandths == {0, 500, 999}

\* the float d + f / 1000
Seconds(d, f) == IF f = 0 THEN PyNum(d, 1) ELSE PyNum((d * 1000) + f, 1000)

\* None, a value float() rejects, infinity, and the durations
SecsInputs ==
    {PyNone, PyBad, PyNum(1, 0)}
    \cup {Seconds(d, f) : d \in (0..MaxSecs) \cup LongDurations, f \in Thousandths}

call_secs_fmt(s) ==
    /\ fmt' = [fn |-> "secs_fmt", arg |-> s, out |-> secs_fmt(s)]
    /\ UNCHANGED <<cancelled_before, impl, ui, stop_flag, q, w, sent, applied, calls, hooks,
                   cancelAt, session>>

\* the speeds the engine may report: None, a value float() rejects, 0, and
\* numbers of bytes per second below and above the steps of 1024
SpeedInputs ==
    {PyNone, PyBad, PyNum(0, 1), PyNum(1, 1), PyNum(1, 2), PyNum(512, 1),
     PyNum(1023, 1), PyNum(1024, 1), PyNum(1536, 1), PyNum(1048575, 1),
     PyNum(1048576, 1), PyNum(5242880, 1)}

\* the hook's expression for the "speed" field, evaluated for speed
call_speed_text(speed) ==
    /\ fmt' = [fn |-> "speed", arg |-> speed, out |-> SpeedText(impl, speed)]
    /\ UNCHANGED <<cancelled_before, impl, ui, stop_flag, q, w, sent, applied, calls, hooks,
                   cancelAt, session>>

NextFormat ==
    \/ \E s \in SecsInputs : call_secs_fmt(s)
    \/ \E speed \in SpeedInputs : call_speed_text(speed)

SpecFormat == Init /\ [][NextFormat]_vars

(***************************************************************************)
(* Vocabulary of the properties.                                           *)
(***************************************************************************)
Last(s) == s[Len(s)]

\* positions of `calls` with operation o
Ops(o) == {i \in DOMAIN calls : calls[i].op = o}

\* positions of `sent` with an event of kind k
Kinds(k) == {i \in DOMAIN sent : sent[i].kind = k}

\* the per-item start log entry "[k/total] title"
IsStartLogOf(ev, k) ==
    /\ ev.kind = "log"
    /\ k \in DOMAIN w.entries
    /\ ev.text = StartLogText(k, w.total, TitleOf(w.entries[k], k))

\* the positions of sent with the start log of item k (its text t is built once)
StartLogs(k) ==
    IF k \in DOMAIN w.entries
    THEN UNION { {i \in Kinds("log") : sent[i].text = t} :
                 t \in {StartLogText(k, w.total, TitleOf(w.entries[k], k))} }
    ELSE {}

ErrorLogs == {i \in Kinds("log") : sent[i].text = "ERROR: download failed"}

FatalLogs == {i \in Kinds("log") : sent[i].text \in {"FATAL: mkdir", "FATAL: extract"}}

\* a worker ran and has ended
Finished == session > 0 /\ w.pc = "none"

\* resolution succeeded: the meta event was sent
Resolved == Kinds("meta") # {}

\* cancel_download was not invoked while the worker ran
NoCancelWhileRunning == cancelAt.pc \in {"never", "none"}

\* the worker's last events are the non-cancelled summary with c of n
ReportedDone(c, n) ==
    IF impl = 1
    THEN /\ Len(sent) >= 2
         /\ sent[Len(sent) - 1] = StatusEv(DoneText(1, c, n))
         /\ Last(sent) = DoneEv(1, FALSE, "")
    ELSE /\ Len(sent) >= 1
         /\ Last(sent) = DoneEv(2, FALSE, DoneText(2, c, n))

\* the worker's last events are the cancelled summary with c of n
ReportedCancelled(c, n) ==
    IF impl = 1
    THEN /\ Len(sent) >= 2
         /\ sent[Len(sent) - 1] = StatusEv(CancelledText(1, c, n))
         /\ Last(sent) = DoneEv(1, TRUE, "")
    ELSE /\ Len(sent) >= 1
         /\ Last(sent) = DoneEv(2, TRUE, CancelledText(2, c, n))

\* the worker's last events are the fatal log and the Failed outcome
ReportedFailed ==
    IF impl = 1
    THEN /\ Len(sent) >= 3
         /\ Len(sent) - 2 \in FatalLogs
         /\ sent[Len(sent) - 1] = StatusEv("Failed.")
         /\ Last(sent) = DoneEv(1, TRUE, "")
    ELSE /\ Len(sent) >= 2
         /\ Len(sent) - 1 \in FatalLogs
         /\ Last(sent) = DoneEv(2, TRUE, "Failed.")

(***************************************************************************)
(* C1: items are attempted in the order of the resolved list, one at a     *)
(* time and at most once: a download call is the first engine event or     *)
(* directly follows the return or error of the previous call, the indices  *)
(* of the calls strictly increase, every call has exactly one start log,   *)
(* the start logs are in the order of the items, and a call is in flight   *)
(* exactly when the worker is inside ydl.download.                         *)
(***************************************************************************)
C1_SequentialOrder ==
    /\ \A i \in Ops("call") : i = 1 \/ calls[i - 1].op \in {"ret", "err"}
    /\ \A i, j \in Ops("call") : i < j => calls[i].idx < calls[j].idx
    \* logsOf[k]: the positions of the start logs of item k
    /\ \A logsOf \in {[k \in 1..w.total |-> StartLogs(k)]} :
         /\ \A k \in 1..w.total :
              /\ Cardinality(logsOf[k])
                   = Cardinality({i \in Ops("call") : calls[i].idx = k})
              /\ Cardinality(logsOf[k]) <= 1
         /\ \A k1, k2 \in 1..w.total : \A i \in logsOf[k1] : \A j \in logsOf[k2] :
              i < j => k1 < k2
    /\ (w.pc = "download") <=>
         /\ calls # << >>
         /\ \/ Last(calls).op = "call"
            \/ Last(calls).op = "hook" /\ ~Last(calls).stop

\* two items were attempted, the first of which failed, and the worker ended
C1_Witness ==
    /\ Finished
    /\ Cardinality(Ops("call")) = 2
    /\ calls[2].op = "err"

(***************************************************************************)
(* C2: without a cancel request, after a successful resolution of n items  *)
(* the worker has attempted each of the n items, ends with the Done        *)
(* summary, reports completed = the number of download calls that          *)
(* returned, and has sent one ERROR log per call that raised.              *)
(***************************************************************************)
C2_AllAttemptedDone ==
    (Finished /\ Resolved /\ NoCancelWhileRunning) =>
        LET n == w.total
            c == Cardinality(Ops("ret"))
        IN  /\ \A k \in 1..n : \E i \in Ops("call") : calls[i].idx = k
            /\ Cardinality(Ops("call")) = n
            /\ ReportedDone(c, n)
            /\ w.completed = c
            /\ Cardinality(ErrorLogs) = Cardinality(Ops("err"))
            /\ Cardinality(Ops("err")) = n - c

\* two items, one of which failed, no cancel
C2_Witness ==
    /\ Finished /\ Resolved /\ NoCancelWhileRunning
    /\ w.total = 2
    /\ Cardinality(Ops("err")) = 1
    /\ Cardinality(Ops("ret")) = 1

(***************************************************************************)
(* C3 as claimed: a cancel while the download of item k of n is in flight  *)
(* (k < n) ends the session cancelled with completed = k - 1 and no        *)
(* attempt of the items after k.                                           *)
(***************************************************************************)
C3_CancelInFlightOriginal ==
    (Finished /\ cancelAt.pc = "download" /\ cancelAt.idx < w.total) =>
        LET k == cancelAt.idx IN
        /\ ReportedCancelled(k - 1, w.total)
        /\ w.completed = k - 1
        /\ \A i \in Ops("call") : calls[i].idx <= k
        /\ \A j \in (k + 1)..w.total : StartLogs(j) = {}

(***************************************************************************)
(* C3 as amended: such a cancel ends the session cancelled, with no        *)
(* attempt and no start log of the items after k; completed is the number  *)
(* of calls that returned, at most k; a hook invoked with the flag set     *)
(* ends the call and the loop, and then item k is not counted              *)
(* (completed <= k - 1).                                                   *)
(***************************************************************************)
C3_CancelInFlight ==
    (Finished /\ cancelAt.pc = "download" /\ cancelAt.idx < w.total) =>
        LET k == cancelAt.idx
            rets == Cardinality(Ops("ret"))
        IN  /\ ReportedCancelled(rets, w.total)
            /\ \A i \in Ops("call") : calls[i].idx <= k
            /\ \A j \in (k + 1)..w.total : StartLogs(j) = {}
            /\ w.completed = rets
            /\ rets <= k
            /\ \A i \in Ops("hook") : calls[i].stop => i = Len(calls)
            /\ Last(calls).op = "hook" =>
                 /\ \A i \in Ops("ret") : calls[i].idx < k
                 /\ rets <= k - 1

\* the cancel came during item 1 of 2 and the hook's interrupt ended the call
C3_Witness ==
    /\ Finished
    /\ cancelAt.pc = "download"
    /\ cancelAt.idx < w.total
    /\ Last(calls).op = "hook"
    /\ Last(calls).stop

(***************************************************************************)
(* C4: cancellation is cooperative.  The step that sets the flag changes   *)
(* nothing of the worker, the engine or the queue; a worker at the top of  *)
(* the loop with the flag set starts no download call and sends no start   *)
(* log; and within a session completed never decreases.                    *)
(***************************************************************************)
C4_CooperativeCancel ==
    [][ /\ (~stop_flag /\ stop_flag') =>
             (w' = w /\ calls' = calls /\ q' = q /\ sent' = sent)
        /\ (stop_flag /\ w.pc = "loop") =>
             /\ Cardinality({i \in DOMAIN calls' : calls'[i].op = "call"})
                  = Cardinality(Ops("call"))
             /\ w'.pc # "download"
             /\ \A i \in DOMAIN sent' : i > Len(sent) => sent'[i].kind # "log"
        /\ (w.pc # "none" /\ w'.pc # "setup") => w'.completed >= w.completed
      ]_vars

\* the flag is set, one item is counted, and the worker is about to check
\* the flag at the top of the loop with an item left
C4_Witness ==
    /\ stop_flag
    /\ w.pc = "loop"
    /\ w.idx <= w.total
    /\ w.completed >= 1

(***************************************************************************)
(* C5: when mkdir or the resolution raises, the worker attempts no item:   *)
(* it sends no meta event, no start log and no progress event, exactly     *)
(* one FATAL log and then exactly one done event, the session ending as    *)
(* Failed; before the FATAL log there is at most the Analyzing status.     *)
(***************************************************************************)
C5_FatalEndsFailed ==
    (Finished /\ Ops("fatal") # {}) =>
        /\ Ops("call") = {}
        /\ Kinds("meta") = {}
        /\ Kinds("progress") = {}
        /\ Kinds("log") = FatalLogs
        /\ Cardinality(FatalLogs) = 1
        /\ Cardinality(Kinds("done")) = 1
        /\ ReportedFailed
        /\ \A i \in DOMAIN sent : \A j \in FatalLogs :
             i < j => sent[i] = StatusEv(AnalyzingText(impl))

\* the resolution failed after the Analyzing status was sent
C5_Witness ==
    /\ Finished
    /\ Ops("fatal") # {}
    /\ sent[1].kind = "status"

(***************************************************************************)
(* C6 as claimed: when _poll_queue applies the done event of a finished    *)
(* session, the displayed status is the outcome the worker reported: the   *)
(* Failed text, the Cancelled summary or the Done summary with             *)
(* completed/total.                                                        *)
(***************************************************************************)
ExpectedStatus ==
    LET rets == Cardinality(Ops("ret")) IN
    IF Ops("fatal") # {} THEN "Failed."
    ELSE IF ReportedCancelled(rets, w.total) THEN CancelledText(impl, rets, w.total)
    ELSE DoneText(impl, rets, w.total)

C6_StatusIdentifiesOutcome ==
    [][ (Finished /\ q # << >> /\ Last(q).kind = "done" /\ q' = << >>) =>
            ui'.status_var = ExpectedStatus ]_vars

(***************************************************************************)
(* C7 as claimed: a start request whose URL text is empty or only          *)
(* whitespace and quotes is rejected: no worker is spawned, no session     *)
(* begins (the status does not become Analyzing), and the stop flag, the   *)
(* two buttons and the queue are unchanged.                                *)
(***************************************************************************)
BlankInputs == {t \in UrlInputs : \A i \in DOMAIN t : t[i] \in {" ", "\"", "'"}}

C7_BlankUrlRejected ==
    [][ \A text \in BlankInputs :
          start_download_thread(text) =>
              /\ w' = w
              /\ session' = session
              /\ ui'.status_var # AnalyzingText(impl)
              /\ stop_flag' = stop_flag
              /\ ui'.btn_start = ui.btn_start
              /\ ui'.btn_cancel = ui.btn_cancel
              /\ q' = q ]_vars

(***************************************************************************)
(* C8: when the resolution gives an empty list and no cancel is requested  *)
(* the worker sends exactly the Analyzing status, the meta event with      *)
(* total 0, the Found status and the Done summary with 0/0: no start log,  *)
(* no progress event, no download call.                                    *)
(***************************************************************************)
C8_EmptyListDone ==
    (Finished /\ Resolved /\ w.total = 0 /\ NoCancelWhileRunning) =>
        /\ calls = << >>
        /\ w.completed = 0
        /\ sent = << StatusEv(AnalyzingText(impl)), MetaEv(0),
                     StatusEv(FoundText(impl, 0)) >>
                  \o (IF impl = 1
                      THEN << StatusEv(DoneText(1, 0, 0)), DoneEv(1, FALSE, "") >>
                      ELSE << DoneEv(2, FALSE, DoneText(2, 0, 0)) >>)

\* a playlist whose entries are all None was resolved and the worker ended
C8_Witness ==
    /\ Finished /\ Resolved /\ NoCancelWhileRunning
    /\ w.total = 0
    /\ q = << >>

(***************************************************************************)
(* C9: in every state 0 <= completed <= number of items attempted <=       *)
(* total, and completed is the number of download calls that returned (a   *)
(* call that raised or was interrupted is never counted); the summary the  *)
(* worker ends with carries exactly that count and the total.              *)
(***************************************************************************)
C9_CompletedAccurate ==
    LET attempted == Cardinality(Ops("call"))
        rets      == Cardinality(Ops("ret"))
    IN  /\ 0 <= w.completed
        /\ w.completed <= attempted
        /\ attempted <= w.total
        /\ w.completed = rets
        /\ (Finished /\ Resolved) =>
             ReportedDone(rets, w.total) \/ ReportedCancelled(rets, w.total)

\* item 1 returned, item 2 was interrupted by the hook, the summary is out
C9_Witness ==
    /\ Finished
    /\ w.completed = 1
    /\ Cardinality(Ops("call")) = 2
    /\ Last(calls).op = "hook"
    /\ Last(calls).stop

(***************************************************************************)
(* C10 as claimed: when the engine reports, for each item, non-decreasing  *)
(* file progress and then at most one "finished", the overall_frac of the  *)
(* progress events of a session never decreases.                           *)
(***************************************************************************)
WellBehavedEngine ==
    \A i, j \in Ops("hook") :
        (i < j /\ calls[i].idx = calls[j].idx) =>
            /\ calls[i].d.status # "finished"
            /\ (calls[i].d.status = "downloading" /\ calls[j].d.status = "downloading")
                 => FracLE(RawFileFrac(calls[i].d), RawFileFrac(calls[j].d))

C10_OverallMonotone ==
    WellBehavedEngine =>
        \A i, j \in Kinds("progress") :
            i < j => FracLE(sent[i].overall_frac, sent[j].overall_frac)

(***************************************************************************)
(* Vocabulary of the hook properties: the hook invocations that have to    *)
(* enqueue an event (flag not set, status downloading or finished), in the *)
(* order of the invocations, and the progress events in the order they     *)
(* were enqueued.                                                          *)
(***************************************************************************)
IsEmittingCall(c) ==
    /\ c.op = "hook"
    /\ ~c.stop
    /\ c.d.status \in {"downloading", "finished"}

EmittingCalls == SelectSeq(calls, IsEmittingCall)

IsProgress(ev) == ev.kind = "progress"

ProgressEvents == SelectSeq(sent, IsProgress)

FracEq(a, b) == a[1] * b[2] = b[1] * a[2]

InUnit(x) == FracLE(<<0, 1>>, x) /\ FracLE(x, <<1, 1>>)

(***************************************************************************)
(* C11: a "finished" payload given to the hook of item k of total (flag    *)
(* not set) enqueues a progress event with file_frac = 1 and overall_frac  *)
(* = k / total exactly; for the last item that is exactly 1.               *)
(***************************************************************************)
C11_FinishedExact ==
    \A j \in DOMAIN EmittingCalls :
        LET c == EmittingCalls[j] IN
        c.d.status = "finished" =>
            /\ j \in DOMAIN ProgressEvents
            /\ w.total > 0
            /\ c.idx \in 1..w.total
            /\ ProgressEvents[j].file_frac = <<1, 1>>
            /\ ProgressEvents[j].overall_frac[1] * w.total
                 = c.idx * ProgressEvents[j].overall_frac[2]
            /\ c.idx = w.total => ProgressEvents[j].overall_frac = <<1, 1>>

\* the first of two items finished (1/2), and so did the last one (2/2)
C11_Witness ==
    /\ w.total = 2
    /\ Len(EmittingCalls) = 2
    /\ EmittingCalls[1].d.status = "finished" /\ EmittingCalls[1].idx = 1
    /\ EmittingCalls[2].d.status = "finished" /\ EmittingCalls[2].idx = 2
    /\ Len(ProgressEvents) = 2

(***************************************************************************)
(* C12 as claimed: every progress event of the hook has file_frac and      *)
(* overall_frac in [0, 1], and the event of a "downloading" payload has    *)
(* overall_frac = ((idx - 1) + file_frac) / total with the file_frac the   *)
(* event carries.                                                          *)
(***************************************************************************)
C12_FractionsConsistent ==
    \A j \in DOMAIN EmittingCalls :
        LET c  == EmittingCalls[j]
            ev == ProgressEvents[j]
        IN  /\ InUnit(ev.file_frac)
            /\ InUnit(ev.overall_frac)
            /\ (c.d.status = "downloading" /\ w.total > 0) =>
                 FracEq(ev.overall_frac,
                        <<((c.idx - 1) * ev.file_frac[2]) + ev.file_frac[1],
                          ev.file_frac[2] * w.total>>)

(***************************************************************************)
(* C13: the file_frac of the event of a "downloading" payload is, clamped  *)
(* to [0, 1]: downloaded / total_bytes when total_bytes is known and       *)
(* positive, else downloaded / total_bytes_estimate when the estimate is   *)
(* known and positive, else fragment_index / fragment_count when the       *)
(* count is known and positive, else 0; an absent or None field counts as  *)
(* 0.                                                                      *)
(***************************************************************************)
KnownPositive(x) == x.t = "num" /\ x.v[1] > 0 /\ x.v[2] > 0

Amount(x) == IF x.t = "num" THEN x.v ELSE <<0, 1>>

ClaimedFileFrac(d) ==
    IF KnownPositive(d.total_bytes)
    THEN FracDiv(Amount(d.downloaded_bytes), d.total_bytes.v)
    ELSE IF KnownPositive(d.total_bytes_estimate)
    THEN FracDiv(Amount(d.downloaded_bytes), d.total_bytes_estimate.v)
    ELSE IF KnownPositive(d.fragment_count)
    THEN FracDiv(Amount(d.fragment_index), d.fragment_count.v)
    ELSE <<0, 1>>

C13_FileFraction ==
    \A j \in DOMAIN EmittingCalls :
        LET c == EmittingCalls[j] IN
        c.d.status = "downloading" =>
            /\ j \in DOMAIN ProgressEvents
            /\ FracEq(ProgressEvents[j].file_frac, Clamp01(ClaimedFileFrac(c.d)))

\* total_bytes is 0, so the estimate decides (1 of 4), not the fragments
\* (1 of 2); and a payload with nothing known gave 0
C13_Witness ==
    /\ Len(EmittingCalls) = 2
    /\ Len(ProgressEvents) = 2
    /\ EmittingCalls[1].d.total_bytes = PyNum(0, 1)
    /\ EmittingCalls[1].d.total_bytes_estimate = PyNum(4, 1)
    /\ ProgressEvents[1].file_frac = <<1, 4>>
    /\ EmittingCalls[2].d.status = "downloading"
    /\ EmittingCalls[2].d.downloaded_bytes = PyNone
    /\ EmittingCalls[2].d.fragment_count = PyNone
    /\ ProgressEvents[2].file_frac = <<0, 1>>

(***************************************************************************)
(* C14: an invocation of the hook reads the flag first.  With the flag set *)
(* it enqueues no progress event and its interrupt ends the download call  *)
(* (nothing is counted).  With the flag not set it enqueues exactly one    *)
(* progress event for the status downloading or finished, and nothing for  *)
(* any other status, and leaves the worker where it is.  In either case    *)
(* the widgets and the flag are untouched, and what was already enqueued   *)
(* stays as it was.                                                        *)
(***************************************************************************)
C14_HookChecksFlagFirst ==
    [][ \A d \in EnginePayloads :
          hook(d) =>
            /\ ui' = ui
            /\ stop_flag' = stop_flag
            /\ Len(sent') >= Len(sent)
            /\ SubSeq(sent', 1, Len(sent)) = sent
            /\ IF stop_flag
               THEN /\ \A i \in (Len(sent) + 1)..Len(sent') : sent'[i].kind # "progress"
                    /\ w'.pc # "download"
                    /\ w'.completed = w.completed
                    /\ Last(calls').op = "hook"
               ELSE /\ w' = w
                    /\ Len(sent') = Len(sent)
                         + (IF d.status \in {"downloading", "finished"} THEN 1 ELSE 0)
                    /\ \A i \in (Len(sent) + 1)..Len(sent') : sent'[i].kind = "progress"
      ]_vars

\* a payload with another status was ignored, and then, the flag being set,
\* the next invocation raised the interrupt
C14_Witness ==
    /\ Cardinality(Ops("hook")) = 2
    /\ \E i \in Ops("hook") : ~calls[i].stop /\ calls[i].d.status = "error"
    /\ Last(calls).op = "hook"
    /\ Last(calls).stop
    /\ ProgressEvents = << >>

(***************************************************************************)
(* C15: the observer applies the worker's events in the order the worker   *)
(* enqueued them, each exactly once: what has been applied, followed by    *)
(* what is still pending, is what was sent.  The applied progress events   *)
(* are, in order, the events of the hook invocations in the order the      *)
(* engine made them, and a progress event of item k is applied before the  *)
(* start log of item k + 1.                                                *)
(***************************************************************************)
AppliedProgress == SelectSeq(applied, IsProgress)

EventOfCall(c) ==
    HookEvents(impl, c.idx, w.total, TitleOf(w.entries[c.idx], c.idx), c.d)[1]

C15_FifoOrder ==
    /\ applied \o q = sent
    /\ \A j \in DOMAIN AppliedProgress :
         /\ j \in DOMAIN EmittingCalls
         /\ AppliedProgress[j] = EventOfCall(EmittingCalls[j])
    /\ \A i, j \in DOMAIN applied : \A k \in 1..(w.total - 1) :
         ( /\ IsProgress(applied[j])
           /\ applied[j].title = TitleOf(w.entries[k], k)
           /\ IsStartLogOf(applied[i], k + 1) ) => j < i

\* two different progress events of item 1 and then the start log of item 2
\* have been applied, and more is pending
C15_Witness ==
    /\ Len(AppliedProgress) = 2
    /\ AppliedProgress[1] # AppliedProgress[2]
    /\ EmittingCalls[1].idx = 1
    /\ EmittingCalls[2].idx = 1
    /\ \E i \in DOMAIN applied : IsStartLogOf(applied[i], 2)
    /\ q # << >>

(***************************************************************************)
(* C16: a run of _poll_queue takes every pending event and leaves the      *)
(* queue empty; afterwards each displayed field has the value of the last  *)
(* event of the batch that writes it, or its old value when no event of    *)
(* the batch writes it; with nothing pending the run changes nothing; and  *)
(* as the poll is run again and again, whatever was enqueued is            *)
(* eventually applied.                                                     *)
(***************************************************************************)
\* the last event of the batch with a kind in ks
LastIn(batch, ks) ==
    LET I == {i \in DOMAIN batch : batch[i].kind \in ks}
    IN  IF I = {} THEN [kind |-> "nothing"]
        ELSE batch[CHOOSE i \in I : \A j \in I : j <= i]

LastWriteWins(i, before, after, batch) ==
    LET p  == LastIn(batch, {"progress"})
        o  == LastIn(batch, {"progress", "meta"})
        st == LastIn(batch, {"status", "done"})
    IN  /\ IF p.kind = "progress"
           THEN /\ after.file_pct = Pct(p.file_frac)
                /\ after.file_title_var = p.title
                /\ after.speed_var = p.speed
                /\ after.eta_var = p.eta
           ELSE /\ after.file_pct = before.file_pct
                /\ after.file_title_var = before.file_title_var
                /\ after.speed_var = before.speed_var
                /\ after.eta_var = before.eta_var
        /\ after.overall_pct =
             CASE o.kind = "progress" -> Pct(o.overall_frac)
               [] o.kind = "meta"     -> 0
               [] OTHER               -> before.overall_pct
        /\ after.remain_var =
             CASE i = 2 /\ o.kind = "progress" -> IntStr(o.remaining)
               [] i = 2 /\ o.kind = "meta"     -> IntStr(o.total)
               [] OTHER                        -> before.remain_var
        /\ after.status_var =
             CASE st.kind = "status" -> st.text
               [] st.kind = "done"   -> IF i = 2 THEN st.text ELSE "Done."
               [] OTHER              -> before.status_var

C16_PollDrainsAll ==
    /\ [][ poll_queue =>
             /\ q' = << >>
             /\ applied' = applied \o q
             /\ LastWriteWins(impl, ui, ui', q)
             /\ q = << >> => UNCHANGED vars ]_vars
    /\ (applied # sent) ~> (applied = sent)

\* the session is over and everything sent has been applied, several
\* status events and a progress event among them; the fields show the
\* progress event, and Start is enabled again
C16_Witness ==
    /\ Finished
    /\ q = << >>
    /\ applied = sent
    /\ Cardinality(Kinds("status")) >= 2
    /\ Len(AppliedProgress) = 1
    /\ ui.eta_var = AppliedProgress[1].eta
    /\ ui.file_pct = Pct(AppliedProgress[1].file_frac)
    /\ ui.btn_start = "normal"

(***************************************************************************)
(* C17 as claimed: once cancel_download has set the status to Cancelling,  *)
(* the displayed status stays Cancelling until the run of _poll_queue      *)
(* that applies the done event of the session (which disables Cancel).     *)
(***************************************************************************)
C17_CancellingStays ==
    [][ (ui.status_var = "Cancelling..." /\ ui'.status_var # "Cancelling...") =>
            /\ \E i \in DOMAIN q : q[i].kind = "done"
            /\ q' = << >>
            /\ ui'.btn_cancel = "disabled" ]_vars

(***************************************************************************)
(* C18: the flag changes only in a step of the Tk thread (the worker, the  *)
(* engine log and the queue are as before, or the step is the start that   *)
(* creates the worker); it goes back to False only in an accepted start,   *)
(* when no worker runs; and within a session it never goes from True to    *)
(* False.  The worker's steps leave it as it is.                           *)
(***************************************************************************)
C18_StopFlagOneWay ==
    [][ /\ stop_flag' # stop_flag =>
             /\ calls' = calls \/ calls' = << >>
             /\ q' = q
             /\ w' = w \/ (w.pc = "none" /\ w'.pc = "setup")
        /\ (stop_flag /\ ~stop_flag') =>
             /\ w.pc = "none"
             /\ session' = session + 1
        /\ (stop_flag /\ session' = session) => stop_flag'
        /\ (w' # w /\ w.pc # "none") => stop_flag' = stop_flag
      ]_vars

\* the second session's worker is in a download and the flag, which the
\* start had reset, is set again
C18_Witness ==
    /\ session = 2
    /\ stop_flag
    /\ cancelAt.pc = "download"
    /\ w.pc = "download"

(***************************************************************************)
(* Vocabulary of the duration properties.                                  *)
(***************************************************************************)
\* 0, None, infinity, or a value that is not a number
IsPlaceholderInput(x) ==
    \/ x.t \in {"none", "bad"}
    \/ x.t = "num" /\ (x.v[1] = 0 \/ x.v[2] = 0)

NonNegative(x) == x.t = "num" /\ x.v[2] > 0 /\ x.v[1] >= 0

IsWhole(x) == x.t = "num" /\ x.v[2] = 1 /\ x.v[1] >= 0

\* the seconds without their fractional part
WholeSeconds(x) == x.v[1] \div x.v[2]

\* a field of exactly two digits; it can only show n up to 99 (from 100 on
\* these are the last two digits of n)
TwoDigits(n) == Digit((n \div 10) % 10) \o Digit(n % 10)

\* a field of at least two digits
AtLeastTwoDigits(n) == IF n < 100 THEN TwoDigits(n) ELSE IntStr(n)

(***************************************************************************)
(* C19 as claimed: secs_fmt gives "--:--" for 0, None, infinity and a      *)
(* value that is not a number; for any other non-negative duration MM:SS   *)
(* below one hour and HH:MM:SS from one hour on, every field two digits.   *)
(***************************************************************************)
C19_SecsFmtOriginal ==
    fmt.fn = "secs_fmt" =>
        IF IsPlaceholderInput(fmt.arg) THEN fmt.out = "--:--"
        ELSE NonNegative(fmt.arg) =>
               LET t == WholeSeconds(fmt.arg)
                   h == t \div 3600
                   m == (t \div 60) % 60
                   sec == t % 60
               IN  fmt.out = IF t < 3600
                             THEN TwoDigits(m) \o ":" \o TwoDigits(sec)
                             ELSE TwoDigits(h) \o ":" \o TwoDigits(m) \o ":"
                                  \o TwoDigits(sec)

(***************************************************************************)
(* C19 as amended: the same, with minutes and seconds of two digits and    *)
(* an hours field of at least two digits (two below 100 hours, as many as  *)
(* the number of hours needs from 100 hours on).                           *)
(***************************************************************************)
C19_SecsFmt ==
    fmt.fn = "secs_fmt" =>
        IF IsPlaceholderInput(fmt.arg) THEN fmt.out = "--:--"
        ELSE NonNegative(fmt.arg) =>
               LET t == WholeSeconds(fmt.arg)
                   h == t \div 3600
                   m == (t \div 60) % 60
                   sec == t % 60
               IN  fmt.out = IF t < 3600
                             THEN TwoDigits(m) \o ":" \o TwoDigits(sec)
                             ELSE AtLeastTwoDigits(h) \o ":" \o TwoDigits(m) \o ":"
                                  \o TwoDigits(sec)

\* a hundred hours
C19_Witness ==
    /\ fmt.fn = "secs_fmt"
    /\ fmt.arg = PyNum(360000, 1)
    /\ fmt.out = "100:00:00"

(***************************************************************************)
(* C20 as claimed: for a whole number d >= 0 of seconds, secs_fmt(d) and   *)
(* secs_fmt(d + 0.999) are the same string.                                *)
(***************************************************************************)
C20_SubSecondTruncated ==
    /\ (fmt.fn = "secs_fmt" /\ IsWhole(fmt.arg)) =>
          secs_fmt(Seconds(fmt.arg.v[1], 999)) = fmt.out
    /\ (fmt.fn = "secs_fmt" /\ fmt.arg.t = "num" /\ fmt.arg.v[2] = 1000
          /\ fmt.arg.v[1] % 1000 = 999) =>
          fmt.out = secs_fmt(Seconds(fmt.arg.v[1] \div 1000, 0))

(***************************************************************************)
(* C21 as claimed: the speed text of a progress event is "0 B/s" for a     *)
(* speed that is absent, not a number or 0; for any other speed v >= 0 it  *)
(* is v, divided by 1024 as often as needed to get below 1024, with one    *)
(* decimal place, a blank, the unit of that step (B, K, M, G, T, P, E, Z,  *)
(* Y) and "/s"; so for 0 < v < 1024 it is v with one decimal place and     *)
(* the unit B.                                                             *)
(***************************************************************************)
ClaimedUnits == <<"B", "K", "M", "G", "T", "P", "E", "Z", "Y">>

RECURSIVE ClaimedSpeed(_, _)
ClaimedSpeed(v, k) ==
    IF v[1] < 1024 * v[2] \/ k = Len(ClaimedUnits)
    THEN Fmt1(v) \o " " \o ClaimedUnits[k] \o "/s"
    ELSE ClaimedSpeed(<<v[1], v[2] * 1024>>, k + 1)

C21_SpeedText ==
    fmt.fn = "speed" =>
        IF IsPlaceholderInput(fmt.arg) THEN fmt.out = "0 B/s"
        ELSE NonNegative(fmt.arg) => fmt.out = ClaimedSpeed(fmt.arg.v, 1)

(***************************************************************************)
(* C22: an accepted start leads to a "done" event of its worker, whatever  *)
(* path the worker takes; a session never has two "done" events; "done"    *)
(* is there exactly when the worker has ended, and it is the last event    *)
(* the session enqueues; and the run of the observer that applies "done"   *)
(* leaves Start enabled and Cancel disabled.                               *)
(***************************************************************************)
DoneIn(evs) == {i \in DOMAIN evs : evs[i].kind = "done"}

C22_OneDone ==
    /\ (session > 0) ~> (Cardinality(Kinds("done")) = 1)
    /\ [](Cardinality(Kinds("done")) <= 1)
    /\ [](session > 0 => (Kinds("done") # {} <=> w.pc = "none"))
    /\ [](Kinds("done") # {} => Last(sent).kind = "done")
    /\ [][DoneIn(applied') # DoneIn(applied)
            => ui'.btn_start = "normal" /\ ui'.btn_cancel = "disabled"]_vars

\* a session interrupted through the hook whose "done" has been applied
C22_Witness ==
    /\ Finished /\ calls # << >>
    /\ Last(calls).op = "hook" /\ Last(calls).stop
    /\ Cardinality(Kinds("done")) = 1
    /\ DoneIn(applied) # {}
    /\ ui.btn_start = "normal" /\ ui.btn_cancel = "disabled"

(***************************************************************************)
(* C23: in every reachable state exactly one of Start and Cancel is        *)
(* enabled; Start is the disabled one exactly from an accepted start until *)
(* the observer has applied that session's "done"; so while a worker runs, *)
(* or events of its session are still pending, Start cannot be invoked and *)
(* no second worker is spawned.                                            *)
(***************************************************************************)
C23_ButtonsExclusive ==
    /\ {ui.btn_start, ui.btn_cancel} = {"normal", "disabled"}
    /\ ui.btn_start = "disabled" <=> (session > 0 /\ DoneIn(applied) = {})
    /\ (w.pc # "none" \/ q # << >>) => ui.btn_start = "disabled"

\* the worker of a second session runs: the first "done" was applied, Start
\* was pressed again and is disabled once more
C23_Witness ==
    /\ session = 2 /\ w.pc = "download"
    /\ ui.btn_start = "disabled" /\ ui.btn_cancel = "normal"

(***************************************************************************)
(* C24: when Cancel was pressed before the item loop began (the worker was *)
(* still creating the folder or resolving the URL) and the resolution then *)
(* gives at least one item, the worker attempts none: no per-item start    *)
(* log, no download call and no hook call, completed stays 0, and the      *)
(* session ends as cancelled with "0/total".                               *)
(***************************************************************************)
CancelledWhileResolving == cancelAt.pc \in {"setup", "resolve"}

C24_CancelWhileResolving ==
    (Resolved /\ CancelledWhileResolving /\ w.total >= 1) =>
        /\ calls = << >>
        /\ Kinds("log") = {}
        /\ w.completed = 0
        /\ Finished => ReportedCancelled(0, w.total)

\* such a session has ended: two items were found, none was attempted
C24_Witness ==
    /\ Finished /\ Resolved
    /\ cancelAt.pc = "resolve" /\ w.total = 2
    /\ calls = << >>
    /\ ReportedCancelled(0, 2)

(***************************************************************************)
(* C25 as claimed, for both implementations: a session whose worker        *)
(* reports the cancelled summary has completed < total, and a session      *)
(* whose worker reports the Done summary has attempted every resolved      *)
(* item, whenever Cancel was pressed.                                      *)
(***************************************************************************)
C25_CancelledMeansIncomplete ==
    (Finished /\ Resolved) =>
        /\ ReportedCancelled(w.completed, w.total) => w.completed < w.total
        /\ ReportedDone(w.completed, w.total)
              => Cardinality(Ops("call")) = w.total

(***************************************************************************)
(* C26: a cancel request belongs to one session.  In a session that        *)
(* follows one in which Cancel was pressed (at any moment, also after its  *)
(* worker had finished and before its "done" was applied), and in which    *)
(* Cancel has not been pressed itself, the stop flag is False from the     *)
(* start on, no hook call sees it set, and the worker attempts every       *)
(* resolved item, lets each download return or raise, and reports Done.    *)
(***************************************************************************)
C26_CancelPerSession ==
    (cancelled_before /\ cancelAt = NeverCancelled) =>
        /\ ~stop_flag
        /\ \A i \in Ops("hook") : ~calls[i].stop
        /\ (Finished /\ Resolved) =>
              /\ Cardinality(Ops("call")) = w.total
              /\ Cardinality(Ops("ret") \cup Ops("err")) = w.total
              /\ ReportedDone(w.completed, w.total)

\* the session after a cancelled one has downloaded both of its items
C26_Witness ==
    /\ cancelled_before /\ cancelAt = NeverCancelled
    /\ Finished /\ w.total = 2
    /\ Cardinality(Ops("ret")) = 2
    /\ ReportedDone(2, 2)

=============================================================================
